---------------------------- MODULE Spec2Model ----------------------------
(***************************************************************************)
(* A model of spreadorm's query core (packages/spreadorm/src/utils/index.ts,*)
(* the current version of the file: lines 204-431) and of the SpreadORM     *)
(* class that drives it (packages/spreadorm/src/classes/SpreadORM.ts).      *)
(*                                                                          *)
(* JavaScript values are records [t, n, s, items]: t is the kind of the     *)
(* value, n the payload of a number (or 0/1 of a boolean), s the payload of *)
(* a string (a sequence of one-character strings), items the elements of an *)
(* array.  Every value has all four fields, so that two values can always   *)
(* be compared.                                                             *)
(***************************************************************************)
EXTENDS Integers, Sequences, FiniteSets, TLC

VARIABLES
    data,           \* SpreadORM.data: [held |-> FALSE] is null, else the rows
    lastFetchTime,  \* SpreadORM.lastFetchTime
    cacheEnabled,   \* SpreadORM.cacheEnabled
    cacheDuration,  \* SpreadORM.cacheDuration
    now,            \* Date.now()
    sheet,          \* the rows the remote sheet parses to
    network,        \* whether the operation that completed last sent a request
    op,             \* the operation that completed last ("init" before any)
    args,           \* the arguments the operations run with
    ret,            \* what the operation that completed last returned or threw
    calls,          \* the find operations in flight, one slot a caller
    sinceReset      \* find operations called since the last reset (or since the
                    \* construction): "none", "one" or "more"

vars ==
    <<data, lastFetchTime, cacheEnabled, cacheDuration, now, sheet, network, op, args, ret,
      calls, sinceReset>>
ormVars ==
    <<data, lastFetchTime, cacheEnabled, cacheDuration, now, sheet, network, calls,
      sinceReset>>

(***************************************************************************)
(* Bounds of the model.                                                     *)
(***************************************************************************)
MaxOps == 2         \* operators in one operator set
MaxRows == 3        \* rows in one row sequence
MaxKeys == 2        \* sort keys in one orderBy array, names in one select list
MaxSheetRows == 2   \* rows of the remote sheet
MaxTime == 2        \* the clock runs from 1 to MaxTime
MaxDuration == 2    \* the cache duration is 1 or MaxDuration
MaxCalls == 2       \* find operations that overlap

(***************************************************************************)
(* JavaScript values.                                                       *)
(***************************************************************************)
Num(n) == [t |-> "number", n |-> n, s |-> <<>>, items |-> <<>>]
Str(s) == [t |-> "string", n |-> 0, s |-> s, items |-> <<>>]
Bool(b) == [t |-> "boolean", n |-> IF b THEN 1 ELSE 0, s |-> <<>>, items |-> <<>>]
Null == [t |-> "null", n |-> 0, s |-> <<>>, items |-> <<>>]
Undefined == [t |-> "undefined", n |-> 0, s |-> <<>>, items |-> <<>>]
Arr(items) == [t |-> "array", n |-> 0, s |-> <<>>, items |-> items]

\* typeof v
TypeOf(v) == IF v.t \in {"null", "array"} THEN "object" ELSE v.t

\* a === b (no NaN in the model; two arrays are never the same object)
StrictEq(a, b) == a.t # "array" /\ a = b

\* row[key]: undefined when the row has no such property
Get(row, key) == IF key \in DOMAIN row THEN row[key] ELSE Undefined

\* Array.prototype.includes (SameValueZero, which is === without NaN)
ArrayIncludes(items, v) == \E i \in 1..Len(items) : StrictEq(items[i], v)

\* String.prototype.startsWith / endsWith / includes
StartsWith(s, p) == Len(p) <= Len(s) /\ SubSeq(s, 1, Len(p)) = p
EndsWith(s, p) == Len(p) <= Len(s) /\ SubSeq(s, Len(s) - Len(p) + 1, Len(s)) = p
Includes(s, p) == \E i \in 0..(Len(s) - Len(p)) : SubSeq(s, i + 1, i + Len(p)) = p


(***************************************************************************)
(* Conditions of a where clause.  A condition is either a scalar (or array) *)
(* value, or an object whose keys are operator names.                       *)
(***************************************************************************)
NoOps == [k \in {} |-> Null]
Lit(v) == [obj |-> FALSE, val |-> v, ops |-> NoOps]
Ops(f) == [obj |-> TRUE, val |-> Null, ops |-> f]

\* the validKeys list of isWhereOperator
validKeys == {"eq", "ne", "gt", "gte", "lt", "lte",
              "contains", "startsWith", "endsWith", "in", "notIn"}

\* Object.keys(condition): the operator names of an object, the indices of an array
ObjectKeys(c) ==
    IF c.obj THEN DOMAIN c.ops
    ELSE {ToString(i - 1) : i \in 1..Len(c.val.items)}

\* condition.<name> after destructuring: undefined when the key is absent
Operand(c, name) == IF c.obj /\ name \in DOMAIN c.ops THEN c.ops[name] ELSE Undefined

\* condition === null
IsNullLiteral(c) == ~c.obj /\ c.val = Null

isWhereOperator(c) ==
    IF ~c.obj /\ (TypeOf(c.val) # "object" \/ c.val = Null) THEN FALSE
    ELSE \A key \in ObjectKeys(c) : key \in validKeys

handleNumericOperatorsGtAsGte(value, condition) ==
    LET gt == Operand(condition, "gt")
        gte == Operand(condition, "gte")
        lt == Operand(condition, "lt")
        lte == Operand(condition, "lte")
    IN  IF gt.t = "number" THEN value.n >= gt.n
        ELSE IF gte.t = "number" THEN value.n >= gte.n
        ELSE IF lt.t = "number" THEN value.n < lt.n
        ELSE IF lte.t = "number" THEN value.n <= lte.n
        ELSE TRUE

handleNumericOperators(value, condition) ==
    LET gt == Operand(condition, "gt")
        gte == Operand(condition, "gte")
        lt == Operand(condition, "lt")
        lte == Operand(condition, "lte")
    IN  IF gt.t = "number" THEN value.n > gt.n
        ELSE IF gte.t = "number" THEN value.n >= gte.n
        ELSE IF lt.t = "number" THEN value.n < lt.n
        ELSE IF lte.t = "number" THEN value.n <= lte.n
        ELSE TRUE

handleStringOperatorsDefaultFalse(value, condition) ==
    LET contains == Operand(condition, "contains")
        startsWith == Operand(condition, "startsWith")
        endsWith == Operand(condition, "endsWith")
    IN  IF contains.t = "string" THEN Includes(value.s, contains.s)
        ELSE IF startsWith.t = "string" THEN StartsWith(value.s, startsWith.s)
        ELSE IF endsWith.t = "string" THEN EndsWith(value.s, endsWith.s)
        ELSE FALSE

handleStringOperators(value, condition) ==
    LET contains == Operand(condition, "contains")
        startsWith == Operand(condition, "startsWith")
        endsWith == Operand(condition, "endsWith")
    IN  IF contains.t = "string" THEN Includes(value.s, contains.s)
        ELSE IF startsWith.t = "string" THEN StartsWith(value.s, startsWith.s)
        ELSE IF endsWith.t = "string" THEN EndsWith(value.s, endsWith.s)
        ELSE TRUE

handleArrayOperators(value, condition) ==
    LET inArray == Operand(condition, "in")
        notIn == Operand(condition, "notIn")
    IN  IF inArray.t = "array" THEN ArrayIncludes(inArray.items, value)
        ELSE IF notIn.t = "array" THEN ~ArrayIncludes(notIn.items, value)
        ELSE TRUE

handleWhereOperator(rowValue, condition) ==
    LET eq == Operand(condition, "eq")
        ne == Operand(condition, "ne")
        inArray == Operand(condition, "in")
        notIn == Operand(condition, "notIn")
    IN  IF eq # Undefined THEN StrictEq(rowValue, eq)
        ELSE IF ne # Undefined THEN ~StrictEq(rowValue, ne)
        ELSE IF TypeOf(rowValue) = "number" THEN
            IF inArray # Undefined \/ notIn # Undefined
            THEN handleArrayOperators(rowValue, condition)
            ELSE handleNumericOperators(rowValue, condition)
        ELSE IF TypeOf(rowValue) = "string" THEN
            IF inArray # Undefined \/ notIn # Undefined
            THEN handleArrayOperators(rowValue, condition)
            ELSE handleStringOperators(rowValue, condition)
        ELSE handleArrayOperators(rowValue, condition)

evaluateConditionNoNullCheck(row, key, condition) ==
    LET rowValue == Get(row, key)
    IN  IF isWhereOperator(condition) THEN handleWhereOperator(rowValue, condition)
        ELSE ~condition.obj /\ StrictEq(rowValue, condition.val)

evaluateCondition(row, key, condition) ==
    LET rowValue == Get(row, key)
    IN  IF rowValue = Null THEN IsNullLiteral(condition)
        ELSE IF isWhereOperator(condition) THEN handleWhereOperator(rowValue, condition)
        \* rowValue === condition: a row value is never the condition object itself
        ELSE ~condition.obj /\ StrictEq(rowValue, condition.val)

(***************************************************************************)
(* evaluateCondition on its own: one row, one key, one condition.           *)
(***************************************************************************)
OperatorKeys == validKeys \cup {"regex"}
OperandValues ==
    {Num(2), Str(<<"a">>), Str(<<"2">>), Null, Arr(<<Num(2), Str(<<"b">>)>>)}
CondRowValues ==
    {Num(1), Num(2), Num(3), Str(<<"a", "b">>), Str(<<"b", "a">>), Str(<<"b">>),
     Str(<<"2">>), Bool(TRUE), Null}
OperatorSets ==
    UNION {[K -> OperandValues] :
           K \in {S \in SUBSET OperatorKeys : Cardinality(S) <= MaxOps}}
Conditions == {Lit(v) : v \in OperandValues} \cup {Ops(f) : f \in OperatorSets}
CondRows == {[f |-> v] : v \in CondRowValues}
CondKeys == {"f", "g"}

InitCond ==
    /\ data = [held |-> FALSE, rows |-> <<>>]
    /\ lastFetchTime = 0
    /\ cacheEnabled = TRUE
    /\ cacheDuration = 1
    /\ now = 1
    /\ sheet = <<>>
    /\ network = FALSE
    /\ calls = <<>>
    /\ op = "init"
    /\ args \in [row : CondRows, key : CondKeys, condition : Conditions]
    /\ ret = FALSE
    /\ sinceReset = "none"

EvaluateCondition ==
    /\ op = "init"
    /\ op' = "evaluateCondition"
    /\ ret' = evaluateCondition(args.row, args.key, args.condition)
    /\ UNCHANGED <<ormVars, args>>

NextCond == EvaluateCondition

SpecCond == InitCond /\ [][NextCond]_vars

(***************************************************************************)
(* What each operator means, stated without reference to the handlers.      *)
(***************************************************************************)
CondValue == Get(args.row, args.key)
CondKeySet == DOMAIN args.condition.ops
CondDone == op = "evaluateCondition"

NumericOps == {"gt", "gte", "lt", "lte"}
StringOps == {"contains", "startsWith", "endsWith"}

\* the operator is one the reference meaning is defined for, on this value and operand
Applicable(name, v, x) ==
    CASE name \in {"eq", "ne"} -> TRUE
      [] name \in NumericOps -> v.t = "number" /\ x.t = "number"
      [] name \in StringOps -> v.t = "string" /\ x.t = "string"
      [] name \in {"in", "notIn"} -> x.t = "array"
      [] OTHER -> FALSE

RefHolds(name, v, x) ==
    CASE name = "eq" -> v.t # "array" /\ v = x
      [] name = "ne" -> ~(v.t # "array" /\ v = x)
      [] name = "gt" -> v.n > x.n
      [] name = "gte" -> v.n >= x.n
      [] name = "lt" -> v.n < x.n
      [] name = "lte" -> v.n <= x.n
      [] name = "contains" ->
            \E i \in 0..Len(v.s) : \E j \in i..Len(v.s) : SubSeq(v.s, i + 1, j) = x.s
      [] name = "startsWith" -> \E k \in 0..Len(v.s) : SubSeq(v.s, 1, k) = x.s
      [] name = "endsWith" -> \E k \in 0..Len(v.s) : SubSeq(v.s, k + 1, Len(v.s)) = x.s
      [] name = "in" -> \E i \in 1..Len(x.items) : x.items[i] = v
      [] name = "notIn" -> \A i \in 1..Len(x.items) : x.items[i] # v

\* C3: an operator set holding exactly one operator, on a non-null row value of
\* the operator's applicable type, matches iff the operator's reference meaning
\* holds of the row value and the operand.
C3_SingleOperatorMeaning ==
    (/\ CondDone
     /\ args.condition.obj
     /\ Cardinality(CondKeySet) = 1
     /\ CondValue # Null)
    => \A name \in CondKeySet :
          Applicable(name, CondValue, args.condition.ops[name])
          => (ret <=> RefHolds(name, CondValue, args.condition.ops[name]))

C3_Witness ==
    /\ CondDone
    /\ args.condition = Ops([gt |-> Num(2)])
    /\ CondValue = Num(3)
    /\ ret = TRUE

\* C4 (the claim as stated): an operator set holding several operators, on a
\* non-null row value, matches iff every present operator applicable to the
\* value holds.
C4_AllPresentOperatorsHold ==
    (/\ CondDone
     /\ args.condition.obj
     /\ CondKeySet \subseteq validKeys
     /\ Cardinality(CondKeySet) >= 2
     /\ CondValue # Null)
    => (ret <=> \A name \in CondKeySet :
                   Applicable(name, CondValue, args.condition.ops[name])
                   => RefHolds(name, CondValue, args.condition.ops[name]))

\* C6: on a null row value the entry holds iff the condition is the literal
\* null; every operator set, the empty one included, fails.
C6_NullRowValue ==
    (CondDone /\ CondValue = Null)
    => /\ ret <=> (~args.condition.obj /\ args.condition.val = Null)
       /\ args.condition.obj => ~ret

C6_Witness ==
    /\ CondDone
    /\ CondValue = Null
    /\ args.condition = Ops([ne |-> Num(2)])
    /\ ret = FALSE

\* the operator does not apply to this row value and operand
Inapplicable(name, v, x) ==
    \/ name \in NumericOps /\ (v.t # "number" \/ x.t # "number")
    \/ name \in StringOps /\ v.t # "string"

\* C7: an operator set made only of inapplicable operators matches every
\* non-null row value; eq (and ne, when eq is absent) decides the match by strict
\* (in)equality whatever the types, the inapplicable operators beside it adding
\* no constraint.
C7_InapplicableOperatorsIgnored ==
    (/\ CondDone
     /\ args.condition.obj
     /\ CondKeySet # {}
     /\ CondValue # Null
     /\ \A name \in CondKeySet \ {"eq", "ne"} :
           Inapplicable(name, CondValue, args.condition.ops[name]))
    => /\ CondKeySet \cap {"eq", "ne"} = {} => ret
       /\ CondKeySet \cap {"eq", "ne"} = {"eq"} =>
             (ret <=> RefHolds("eq", CondValue, args.condition.ops["eq"]))
       /\ CondKeySet \cap {"eq", "ne"} = {"ne"} =>
             (ret <=> RefHolds("ne", CondValue, args.condition.ops["ne"]))

C7_Witness ==
    /\ CondDone
    /\ CondValue = Str(<<"b">>)
    /\ args.condition = Ops([gt |-> Num(2), lte |-> Str(<<"a">>)])
    /\ ret = TRUE

(***************************************************************************)
(* applyWhere.  A where clause is [present, clause]: clause maps the keys of *)
(* the where object to their conditions; present is FALSE when the caller    *)
(* passed no where at all.                                                   *)
(***************************************************************************)
NoWhere == [present |-> FALSE, clause |-> [k \in {} |-> Lit(Null)]]
Where(clause) == [present |-> TRUE, clause |-> clause]

\* Array.prototype.filter
RECURSIVE Filter(_, _)
Filter(rows, where) ==
    IF rows = <<>> THEN <<>>
    ELSE LET row == Head(rows)
             keep == \A key \in DOMAIN where.clause :
                        evaluateCondition(row, key, where.clause[key])
         IN  (IF keep THEN <<row>> ELSE <<>>) \o Filter(Tail(rows), where)

RECURSIVE FilterAnyEntry(_, _)
FilterAnyEntry(rows, where) ==
    IF rows = <<>> THEN <<>>
    ELSE LET row == Head(rows)
             keep == \/ DOMAIN where.clause = {}
                     \/ \E key \in DOMAIN where.clause :
                           evaluateCondition(row, key, where.clause[key])
         IN  (IF keep THEN <<row>> ELSE <<>>) \o FilterAnyEntry(Tail(rows), where)

applyWhereAnyEntry(rows, where) ==
    IF ~where.present THEN rows ELSE FilterAnyEntry(rows, where)

applyWhere(rows, where) ==
    IF ~where.present THEN rows ELSE Filter(rows, where)

\* all sequences of at most n elements of S
SeqsUpTo(S, n) == UNION {[1..k -> S] : k \in 0..n}

WhereRowSet ==
    [id : {Num(1), Num(2), Null}, name : {Str(<<"a">>), Str(<<"b">>)}]
IdConditions ==
    {Lit(Num(1)), Lit(Null), Ops([gt |-> Num(1)]), Ops([ne |-> Num(2)])}
NameConditions ==
    {Lit(Str(<<"a">>)), Ops([startsWith |-> Str(<<"a">>)]),
     Ops([in |-> Arr(<<Str(<<"b">>), Num(1)>>)]), Ops([regex |-> Str(<<"a">>)])}
WhereClauses ==
    {NoWhere, Where([k \in {} |-> Lit(Null)])}
    \cup {Where([id |-> c]) : c \in IdConditions}
    \cup {Where([name |-> c]) : c \in NameConditions}
    \cup {Where([id |-> c, name |-> d]) : c \in IdConditions, d \in NameConditions}

InitWhere ==
    /\ data = [held |-> FALSE, rows |-> <<>>]
    /\ lastFetchTime = 0
    /\ cacheEnabled = TRUE
    /\ cacheDuration = 1
    /\ now = 1
    /\ sheet = <<>>
    /\ network = FALSE
    /\ calls = <<>>
    /\ op = "init"
    /\ args \in [rows : SeqsUpTo(WhereRowSet, MaxRows), where : WhereClauses]
    /\ ret = <<>>
    /\ sinceReset = "none"

ApplyWhere ==
    /\ op = "init"
    /\ op' = "applyWhere"
    /\ ret' = applyWhere(args.rows, args.where)
    /\ UNCHANGED <<ormVars, args>>

NextWhere == ApplyWhere

SpecWhere == InitWhere /\ [][NextWhere]_vars

\* every entry of the clause holds of the row
EntriesHold(row, where) ==
    \A key \in DOMAIN where.clause : evaluateCondition(row, key, where.clause[key])

\* the positions of the input whose rows satisfy the clause
MatchingIndices(rows, where) == {i \in 1..Len(rows) : EntriesHold(rows[i], where)}

\* C2: applyWhere returns exactly the rows all of whose entries hold, in their
\* original relative order: the k-th row of the result is the row at the k-th
\* matching position of the input.  The result is never longer than the input,
\* and an absent or empty where clause returns every row.
C2_ApplyWhereIsConjunctiveFilter ==
    op = "applyWhere" =>
        LET I == MatchingIndices(args.rows, args.where)
        IN  /\ Len(ret) = Cardinality(I)
            /\ Len(ret) <= Len(args.rows)
            /\ \A k \in 1..Len(ret) :
                  \E i \in I : /\ Cardinality({j \in I : j <= i}) = k
                               /\ ret[k] = args.rows[i]
            /\ (~args.where.present \/ DOMAIN args.where.clause = {})
                  => ret = args.rows

C2_Witness ==
    /\ op = "applyWhere"
    /\ args.where = Where([id |-> Ops([gt |-> Num(1)]), name |-> Lit(Str(<<"a">>))])
    /\ Len(args.rows) = 3
    /\ Len(ret) = 1
    /\ ret[1] = args.rows[2]

(***************************************************************************)
(* The comparator.  Strings are compared as String.prototype.localeCompare  *)
(* compares strings of digits and lower-case letters: character by          *)
(* character in the collation order below, a proper prefix first.           *)
(***************************************************************************)
Alphabet ==
    <<"0", "1", "2", "3", "4", "5", "6", "7", "8", "9",
      "a", "b", "c", "d", "e", "f", "g", "h", "i", "j", "k", "l", "m",
      "n", "o", "p", "q", "r", "s", "t", "u", "v", "w", "x", "y", "z">>

RankTable ==
    [c \in {Alphabet[i] : i \in 1..Len(Alphabet)} |->
        CHOOSE i \in 1..Len(Alphabet) : Alphabet[i] = c]

Rank(c) == RankTable[c]

RECURSIVE localeCompare(_, _)
localeCompare(a, b) ==
    IF a = <<>> /\ b = <<>> THEN 0
    ELSE IF a = <<>> THEN -1
    ELSE IF b = <<>> THEN 1
    ELSE IF Rank(Head(a)) < Rank(Head(b)) THEN -1
    ELSE IF Rank(Head(a)) > Rank(Head(b)) THEN 1
    ELSE localeCompare(Tail(a), Tail(b))

\* the decimal digits of a non-negative integer
RECURSIVE Digits(_)
Digits(n) ==
    IF n < 10 THEN <<Alphabet[n + 1]>>
    ELSE Digits(n \div 10) \o <<Alphabet[(n % 10) + 1]>>

\* String(v) of a scalar
StringOf(v) ==
    CASE v.t = "string" -> v.s
      [] v.t = "number" -> Digits(v.n)
      [] v.t = "boolean" ->
            IF v.n = 1 THEN <<"t", "r", "u", "e">> ELSE <<"f", "a", "l", "s", "e">>
      [] v.t = "null" -> <<"n", "u", "l", "l">>
      [] OTHER -> <<"u", "n", "d", "e", "f", "i", "n", "e", "d">>

compareByType(a, b) ==
    IF TypeOf(a) = "string" /\ TypeOf(b) = "string" THEN localeCompare(a.s, b.s)
    ELSE IF TypeOf(a) = "number" /\ TypeOf(b) = "number" THEN a.n - b.n
    ELSE localeCompare(StringOf(a), StringOf(b))

\* a variant that puts a null operand last in both directions
compareValuesNullAlwaysLast(a, b, order) ==
    IF a = Undefined \/ a = Null THEN 1
    ELSE IF b = Undefined \/ b = Null THEN -1
    ELSE compareByType(a, b) * (IF order = "asc" THEN 1 ELSE -1)

compareValues(a, b, order) ==
    IF a = Undefined \/ a = Null THEN (IF order = "asc" THEN 1 ELSE -1)
    ELSE IF b = Undefined \/ b = Null THEN (IF order = "asc" THEN -1 ELSE 1)
    ELSE IF TypeOf(a) # TypeOf(b)
         THEN compareByType(a, b) * (IF order = "asc" THEN 1 ELSE -1)
         ELSE compareByType(a, b) * (IF order = "asc" THEN 1 ELSE -1)

(***************************************************************************)
(* applyOrderBy.  An orderBy is [kind, keys]: kind is "absent", "single" (one*)
(* {key, order} object) or "array"; keys is the sequence of {key, order}.   *)
(***************************************************************************)
NoOrderBy == [kind |-> "absent", keys |-> <<>>]
OrderBySingle(k) == [kind |-> "single", keys |-> <<k>>]
OrderByArray(ks) == [kind |-> "array", keys |-> ks]

\* the comparison function handed to sort: the first key that tells a and b apart
RECURSIVE compareRows(_, _, _)
compareRows(a, b, orderByArray) ==
    IF orderByArray = <<>> THEN 0
    ELSE LET key == Head(orderByArray).key
             order == Head(orderByArray).order
             comparison == compareValues(Get(a, key), Get(b, key), order)
         IN  IF comparison # 0 THEN comparison
             ELSE compareRows(a, b, Tail(orderByArray))

\* Object.values(row).every((value) => value !== null)
HasNoNull(row) == \A f \in DOMAIN row : row[f] # Null

RECURSIVE RemoveNullRows(_)
RemoveNullRows(rows) ==
    IF rows = <<>> THEN <<>>
    ELSE (IF HasNoNull(Head(rows)) THEN <<Head(rows)>> ELSE <<>>)
         \o RemoveNullRows(Tail(rows))

\* ECMAScript's "consistent comparison function" for the values being sorted
ConsistentComparator(rows, orderByArray) ==
    LET S == {rows[i] : i \in 1..Len(rows)}
        cf == [a \in S |-> [b \in S |-> compareRows(a, b, orderByArray)]]
    IN  \A a \in S : \A b \in S : \A c \in S :
            /\ cf[a][a] = 0
            /\ cf[a][b] = 0 => cf[b][a] = 0
            /\ (cf[a][b] = 0 /\ cf[b][c] = 0) => cf[a][c] = 0
            /\ (cf[a][b] < 0 /\ cf[b][c] < 0) => cf[a][c] < 0
            /\ (cf[a][b] > 0 /\ cf[b][c] > 0) => cf[a][c] > 0

\* insertion of x behind the last element that does not sort after it
RECURSIVE InsertSorted(_, _, _)
InsertSorted(sorted, x, orderByArray) ==
    IF sorted = <<>> THEN <<x>>
    ELSE IF compareRows(sorted[Len(sorted)], x, orderByArray) <= 0
         THEN Append(sorted, x)
         ELSE Append(InsertSorted(SubSeq(sorted, 1, Len(sorted) - 1), x, orderByArray),
                     sorted[Len(sorted)])

\* the stable sort of rows under a consistent comparison function
RECURSIVE StableSort(_, _)
StableSort(rows, orderByArray) ==
    IF rows = <<>> THEN <<>>
    ELSE InsertSorted(StableSort(SubSeq(rows, 1, Len(rows) - 1), orderByArray),
                      rows[Len(rows)], orderByArray)

\* every rearrangement of rows
Rearrangements(rows) ==
    {[i \in 1..Len(rows) |-> rows[p[i]]] :
        p \in {q \in [1..Len(rows) -> 1..Len(rows)] :
                 \A i, j \in 1..Len(rows) : q[i] = q[j] => i = j}}

\* Array.prototype.sort: the stable sort when the comparison function is
\* consistent, an implementation-defined rearrangement when it is not
SortOutcomes(rows, orderByArray) ==
    IF ConsistentComparator(rows, orderByArray)
    THEN {StableSort(rows, orderByArray)}
    ELSE Rearrangements(rows)

applyOrderByKeepingNullRows(rows, orderBy) ==
    IF orderBy.kind = "absent" THEN {rows}
    ELSE SortOutcomes(rows, orderBy.keys)

\* the results applyOrderBy can return
applyOrderBy(rows, orderBy) ==
    IF orderBy.kind = "absent" THEN {rows}
    ELSE SortOutcomes(RemoveNullRows(rows), orderBy.keys)

OrderRowSet ==
    {[k |-> Num(9), g |-> Str(<<"a">>)], [k |-> Num(9), g |-> Str(<<"b">>)],
     [k |-> Num(10), g |-> Str(<<"a">>)], [k |-> Str(<<"5", "x">>), g |-> Str(<<"a">>)],
     [k |-> Null, g |-> Str(<<"a">>)], [k |-> Num(10), g |-> Null]}
OrderKeys == [key : {"k", "g"}, order : {"asc", "desc"}]
OrderBys ==
    {NoOrderBy}
    \cup {OrderBySingle(k) : k \in OrderKeys}
    \cup {OrderByArray(ks) : ks \in SeqsUpTo(OrderKeys, MaxKeys)}

InitOrder ==
    /\ data = [held |-> FALSE, rows |-> <<>>]
    /\ lastFetchTime = 0
    /\ cacheEnabled = TRUE
    /\ cacheDuration = 1
    /\ now = 1
    /\ sheet = <<>>
    /\ network = FALSE
    /\ calls = <<>>
    /\ op = "init"
    /\ args \in [rows : SeqsUpTo(OrderRowSet, MaxRows), orderBy : OrderBys]
    /\ ret = <<>>
    /\ sinceReset = "none"

ApplyOrderBy ==
    /\ op = "init"
    /\ op' = "applyOrderBy"
    /\ ret' \in applyOrderBy(args.rows, args.orderBy)
    /\ UNCHANGED <<ormVars, args>>

NextOrder == ApplyOrderBy

SpecOrder == InitOrder /\ [][NextOrder]_vars

\* how many times row r occurs in a sequence
Occurrences(rows, r) == Cardinality({i \in 1..Len(rows) : rows[i] = r})

RowHasNull(row) == \E f \in DOMAIN row : row[f] = Null

\* C8: with an orderSpec the output holds every input row that has no null
\* field (as often as the input does) and no row that has a null in any field;
\* with no orderSpec the output is the input.
C8_NullRowsDroppedIffOrderBy ==
    op = "applyOrderBy" =>
        /\ args.orderBy.kind = "absent" => ret = args.rows
        /\ args.orderBy.kind # "absent" =>
              /\ \A i \in 1..Len(ret) : ~RowHasNull(ret[i])
              /\ \A r \in OrderRowSet :
                    ~RowHasNull(r) => Occurrences(ret, r) = Occurrences(args.rows, r)

\* a row with a null in a field that is no sort key is dropped
C8_Witness ==
    /\ op = "applyOrderBy"
    /\ args.orderBy = OrderBySingle([key |-> "g", order |-> "asc"])
    /\ Len(args.rows) = 3
    /\ args.rows[2].k = Null
    /\ Len(ret) = 2

\* C9 (the claim as stated): the output is a rearrangement of the input rows
\* that have no null field in which no row sorts after a later row under the
\* keys taken left to right, and rows that tie on every key keep their input
\* order.
C9_OutputOrderedAndStable ==
    (op = "applyOrderBy" /\ args.orderBy.kind # "absent") =>
        LET kept == RemoveNullRows(args.rows)
        IN  /\ ret \in Rearrangements(kept)
            /\ \A i, j \in 1..Len(ret) :
                  i < j => compareRows(ret[i], ret[j], args.orderBy.keys) <= 0
            /\ \A i, j \in 1..Len(kept) :
                  (i < j /\ compareRows(kept[i], kept[j], args.orderBy.keys) = 0
                         /\ kept[i] # kept[j])
                  => \E m, n \in 1..Len(ret) :
                        m < n /\ ret[m] = kept[i] /\ ret[n] = kept[j]

(***************************************************************************)
(* applySelectLimitOffset.  limit and offset are [present, n]; select is     *)
(* [kind, keys] with kind "absent", "array" or "other" (a truthy value that  *)
(* is no array).  What a call returns or throws is an outcome record.        *)
(***************************************************************************)
Absent == [present |-> FALSE, n |-> 0]
Given(n) == [present |-> TRUE, n |-> n]
NoSelect == [kind |-> "absent", keys |-> <<>>]
Select(keys) == [kind |-> "array", keys |-> keys]
SelectNotArray == [kind |-> "other", keys |-> <<>>]

Ok(rows) == [kind |-> "ok", rows |-> rows, msg |-> "", keys |-> <<>>]
Throw(kind, msg, keys) == [kind |-> kind, rows |-> <<>>, msg |-> msg, keys |-> keys]

\* Array.prototype.slice(start) and slice(0, end), for start, end >= 0
SliceFrom(rows, start) == SubSeq(rows, start + 1, Len(rows))
SliceTo(rows, end) == SubSeq(rows, 1, IF end < Len(rows) THEN end ELSE Len(rows))

\* isValidKey: Object.keys(data[0]).includes(key); data[0] must exist
isValidKey(rows, key) == key \in DOMAIN rows[1]

\* a variant that reports the first invalid key only
InvalidKeysFirstOnly(rows, keys) ==
    LET bad == {i \in 1..Len(keys) : ~isValidKey(rows, keys[i])}
    IN  IF bad = {} THEN <<>>
        ELSE <<keys[CHOOSE i \in bad : \A j \in bad : i <= j]>>

RECURSIVE InvalidKeys(_, _)
InvalidKeys(rows, keys) ==
    IF keys = <<>> THEN <<>>
    ELSE (IF isValidKey(rows, Head(keys)) THEN <<>> ELSE <<Head(keys)>>)
         \o InvalidKeys(rows, Tail(keys))

\* a variant that hands the row on with all its fields
ProjectRowKeepingFields(row, keys) == row

\* the row built by the loop newRow[key] = row[key]
ProjectRow(row, keys) == [key \in {keys[i] : i \in 1..Len(keys)} |-> Get(row, key)]

ProjectRows(rows, keys) == [i \in 1..Len(rows) |-> ProjectRow(rows[i], keys)]

applySelectLimitOffsetLimitFirst(rows, options) ==
    IF options.offset.present /\ options.offset.n < 0
    THEN Throw("ValidationError", "Offset must be a non-negative number", <<>>)
    ELSE IF options.limit.present /\ options.limit.n < 0
    THEN Throw("ValidationError", "Limit must be a non-negative number", <<>>)
    ELSE
    LET limited == IF options.limit.present THEN SliceTo(rows, options.limit.n) ELSE rows
        result == IF options.offset.present THEN SliceFrom(limited, options.offset.n)
                  ELSE limited
    IN  IF options.select.kind = "absent" THEN Ok(result)
        ELSE IF options.select.kind = "other"
        THEN Throw("ValidationError", "Select must be an array of keys", <<>>)
        ELSE IF options.select.keys # <<>> /\ rows = <<>>
        THEN Throw("TypeError", "Cannot convert undefined or null to object", <<>>)
        ELSE IF InvalidKeys(rows, options.select.keys) # <<>>
        THEN Throw("ValidationError", "Invalid select keys",
                   InvalidKeys(rows, options.select.keys))
        ELSE Ok(ProjectRows(result, options.select.keys))

applySelectLimitOffsetNegativeIgnored(rows, options) ==
    LET afterOffset == IF options.offset.present /\ options.offset.n >= 0
                       THEN SliceFrom(rows, options.offset.n) ELSE rows
        result == IF options.limit.present /\ options.limit.n >= 0
                  THEN SliceTo(afterOffset, options.limit.n) ELSE afterOffset
    IN  IF options.select.kind = "absent" THEN Ok(result)
        ELSE IF options.select.kind = "other"
        THEN Throw("ValidationError", "Select must be an array of keys", <<>>)
        ELSE IF options.select.keys # <<>> /\ rows = <<>>
        THEN Throw("TypeError", "Cannot convert undefined or null to object", <<>>)
        ELSE IF InvalidKeys(rows, options.select.keys) # <<>>
        THEN Throw("ValidationError", "Invalid select keys",
                   InvalidKeys(rows, options.select.keys))
        ELSE Ok(ProjectRows(result, options.select.keys))

applySelectLimitOffset(rows, options) ==
    IF options.offset.present /\ options.offset.n < 0
    THEN Throw("ValidationError", "Offset must be a non-negative number", <<>>)
    ELSE
    LET afterOffset == IF options.offset.present THEN SliceFrom(rows, options.offset.n)
                       ELSE rows
    IN  IF options.limit.present /\ options.limit.n < 0
        THEN Throw("ValidationError", "Limit must be a non-negative number", <<>>)
        ELSE
        LET result == IF options.limit.present THEN SliceTo(afterOffset, options.limit.n)
                      ELSE afterOffset
        IN  IF options.select.kind = "absent" THEN Ok(result)
            ELSE IF options.select.kind = "other"
            THEN Throw("ValidationError", "Select must be an array of keys", <<>>)
            \* Object.keys(data[0]) throws when data is empty and a key is looked up
            ELSE IF options.select.keys # <<>> /\ rows = <<>>
            THEN Throw("TypeError", "Cannot convert undefined or null to object", <<>>)
            ELSE IF InvalidKeys(rows, options.select.keys) # <<>>
            THEN Throw("ValidationError", "Invalid select keys",
                       InvalidKeys(rows, options.select.keys))
            ELSE Ok(ProjectRows(result, options.select.keys))

SelectRowSet ==
    {[a |-> Num(1), b |-> Str(<<"x">>)], [a |-> Num(2), b |-> Str(<<"y">>)],
     [a |-> Num(3), b |-> Null]}
SelectNames == {"a", "b", "zz", "yy"}
Selects ==
    {NoSelect, SelectNotArray} \cup {Select(ks) : ks \in SeqsUpTo(SelectNames, MaxKeys)}
Counts == {Absent} \cup {Given(n) : n \in -1..(MaxRows + 1)}
SelectOptions == [select : Selects, limit : Counts, offset : Counts]

InitSelect ==
    /\ data = [held |-> FALSE, rows |-> <<>>]
    /\ lastFetchTime = 0
    /\ cacheEnabled = TRUE
    /\ cacheDuration = 1
    /\ now = 1
    /\ sheet = <<>>
    /\ network = FALSE
    /\ calls = <<>>
    /\ op = "init"
    /\ args \in [rows : SeqsUpTo(SelectRowSet, MaxRows), options : SelectOptions]
    /\ ret = Ok(<<>>)
    /\ sinceReset = "none"

ApplySelectLimitOffset ==
    /\ op = "init"
    /\ op' = "applySelectLimitOffset"
    /\ ret' = applySelectLimitOffset(args.rows, args.options)
    /\ UNCHANGED <<ormVars, args>>

NextSelect == ApplySelectLimitOffset

SpecSelect == InitSelect /\ [][NextSelect]_vars

Min(a, b) == IF a < b THEN a ELSE b
Max(a, b) == IF a > b THEN a ELSE b

\* the select list names only fields of the rows' schema (the first row's
\* fields); without a row there is no schema, and only the empty list is valid
ValidSelect(rows, select) ==
    /\ select.kind = "array"
    /\ select.keys # <<>> => rows # <<>>
    /\ \A i \in 1..Len(select.keys) : select.keys[i] \in DOMAIN rows[1]

\* C10: with offset >= 0, limit >= 0 and a valid select list the call returns
\* min(limit, max(0, n - offset)) rows, the k-th of which is the input row at
\* position offset + k restricted to exactly the selected fields, with the
\* input row's values.
C10_OffsetThenLimitThenSelect ==
    (/\ op = "applySelectLimitOffset"
     /\ args.options.offset.present /\ args.options.offset.n >= 0
     /\ args.options.limit.present /\ args.options.limit.n >= 0
     /\ ValidSelect(args.rows, args.options.select))
    => LET n == Len(args.rows)
           offset == args.options.offset.n
           limit == args.options.limit.n
           keys == args.options.select.keys
       IN  /\ ret.kind = "ok"
           /\ Len(ret.rows) = Min(limit, Max(0, n - offset))
           /\ \A k \in 1..Len(ret.rows) :
                 /\ DOMAIN ret.rows[k] = {keys[i] : i \in 1..Len(keys)}
                 /\ \A f \in DOMAIN ret.rows[k] : ret.rows[k][f] = args.rows[offset + k][f]

\* rows [A, B, C] with offset 1, limit 1 and select [b] give [B's b]
C10_Witness ==
    /\ op = "applySelectLimitOffset"
    /\ Len(args.rows) = 3
    /\ args.rows[1] # args.rows[2]
    /\ args.options = [select |-> Select(<<"b">>), limit |-> Given(1), offset |-> Given(1)]
    /\ ret = Ok(<<[b |-> args.rows[2].b]>>)

\* C11: a negative offset makes applySelectLimitOffset throw the validation
\* error "Offset must be a non-negative number"; a negative limit makes it throw
\* a validation error too, which is "Limit must be a non-negative number" when
\* the offset passed its own test (the offset is validated first).  No rows
\* are returned in either case.
C11_NegativeOffsetOrLimitThrows ==
    op = "applySelectLimitOffset"
    => /\ (args.options.offset.present /\ args.options.offset.n < 0)
          => ret = Throw("ValidationError", "Offset must be a non-negative number", <<>>)
       /\ (args.options.limit.present /\ args.options.limit.n < 0)
          => /\ ret.kind = "ValidationError"
             /\ ret.rows = <<>>
             /\ ~(args.options.offset.present /\ args.options.offset.n < 0)
                => ret = Throw("ValidationError", "Limit must be a non-negative number", <<>>)

\* three rows, offset 1 and limit -1: the limit error, and no rows
C11_Witness ==
    /\ op = "applySelectLimitOffset"
    /\ Len(args.rows) = 3
    /\ args.options.offset = Given(1)
    /\ args.options.limit = Given(-1)
    /\ args.options.select.kind = "absent"
    /\ ret = Throw("ValidationError", "Limit must be a non-negative number", <<>>)


\* the names of a select list that are no field of the schema, in the order
\* of the list
RECURSIVE AbsentNames(_, _)
AbsentNames(keys, schema) ==
    IF keys = <<>> THEN <<>>
    ELSE (IF Head(keys) \in schema THEN <<>> ELSE <<Head(keys)>>)
         \o AbsentNames(Tail(keys), schema)

\* C13: over a non-empty row sequence (its first row gives the schema), with
\* offset and limit valid, a select list naming a field absent from the schema
\* makes the call throw the validation error "Invalid select keys" carrying
\* every absent name of the list in the order requested, and no rows; a list
\* of names of the schema raises no error.
C13_AllInvalidSelectNamesReported ==
    (/\ op = "applySelectLimitOffset"
     /\ args.rows # <<>>
     /\ args.options.select.kind = "array"
     /\ ~(args.options.offset.present /\ args.options.offset.n < 0)
     /\ ~(args.options.limit.present /\ args.options.limit.n < 0))
    => LET absent == AbsentNames(args.options.select.keys, DOMAIN args.rows[1])
       IN  IF absent # <<>>
           THEN ret = Throw("ValidationError", "Invalid select keys", absent)
           ELSE ret.kind = "ok"

\* select [zz, yy] over rows with fields a and b: both names are reported
C13_Witness ==
    /\ op = "applySelectLimitOffset"
    /\ args.rows # <<>>
    /\ args.options.select = Select(<<"zz", "yy">>)
    /\ ret = Throw("ValidationError", "Invalid select keys", <<"zz", "yy">>)

\* C14 (the claim as stated): an empty row sequence with a non-empty select
\* list (offset and limit valid) gives the empty sequence and no error.
C14_EmptyRowsWithSelectReturnEmpty ==
    (/\ op = "applySelectLimitOffset"
     /\ args.rows = <<>>
     /\ args.options.select.kind = "array"
     /\ args.options.select.keys # <<>>
     /\ ~(args.options.offset.present /\ args.options.offset.n < 0)
     /\ ~(args.options.limit.present /\ args.options.limit.n < 0))
    => ret = Ok(<<>>)


(***************************************************************************)
(* The SpreadORM class.  JavaScript runs a call to its next await with      *)
(* nothing in between, and other calls of the instance run while a call is  *)
(* suspended.  The definitions below are the stretches of the methods       *)
(* between their awaits; the actions further down put them together.        *)
(***************************************************************************)
NoData == [held |-> FALSE, rows |-> <<>>]
Held(rows) == [held |-> TRUE, rows |-> rows]

\* what await fetch(url) can come to: a response that is ok, one that is not,
\* a rejection
Responses == {"ok", "httpError", "rejected"}
\* what await response.text() can come to: text that parses, text with parse
\* errors, a rejection
Bodies == {"text", "parseErrors", "rejected"}

\* String.prototype.trim: the string without the white space and the line
\* terminators at its two ends.  WhiteSpace holds the tab, the line feed, the
\* form feed, the carriage return, the space, the no-break space U+00A0, the
\* ogham space mark U+1680, the byte order mark U+FEFF and the vertical tab
\* U+000B.  trim strips U+2000 to U+200A, U+2028, U+2029, U+202F, U+205F and
\* U+3000 as well, which the syntax of strings leaves out.
WhiteSpace ==
    {"\t", "\n", "\f", "\r", " ", " ", " ", "﻿", ""}
RECURSIVE trimStart(_)
trimStart(s) ==
    IF Len(s) > 0 /\ SubSeq(s, 1, 1) \in WhiteSpace
    THEN trimStart(SubSeq(s, 2, Len(s))) ELSE s
RECURSIVE trimEnd(_)
trimEnd(s) ==
    IF Len(s) > 0 /\ SubSeq(s, Len(s), Len(s)) \in WhiteSpace
    THEN trimEnd(SubSeq(s, 1, Len(s) - 1)) ELSE s
trim(key) == trimEnd(trimStart(key))

\* cleanData: the row without its columns of blank header
CleanRow(row) == [key \in {k \in DOMAIN row : trim(k) # ""} |-> row[key]]
CleanData(rows) == [i \in 1..Len(rows) |-> CleanRow(rows[i])]

isCacheValid(d, last, enabled, duration, time) ==
    IF ~enabled \/ ~d.held THEN FALSE
    ELSE time - last < duration

\* a variant that gives up the rows it holds once the cache is no longer valid
fetchDataToRequestDroppingExpiredRows(d, last, enabled, duration, time) ==
    IF isCacheValid(d, last, enabled, duration, time)
    THEN [data |-> d, lastFetchTime |-> last, requested |-> FALSE]
    ELSE IF d.held
    THEN [data |-> NoData, lastFetchTime |-> time, requested |-> FALSE]
    ELSE [data |-> d, lastFetchTime |-> last, requested |-> TRUE]

\* fetchData from its call to its return or to await fetch(url): the fields it
\* leaves and whether it has sent the request
fetchDataToRequest(d, last, enabled, duration, time) ==
    IF isCacheValid(d, last, enabled, duration, time)
    THEN [data |-> d, lastFetchTime |-> last, requested |-> FALSE]
    ELSE IF d.held
    THEN [data |-> d, lastFetchTime |-> time, requested |-> FALSE]
    ELSE [data |-> d, lastFetchTime |-> last, requested |-> TRUE]

\* fetchData once await fetch(url) has settled, up to await response.text() or
\* to the catch block, which has set this.data = null when an error is given
fetchDataFromResponse(response) ==
    IF response = "httpError"
    THEN [error |-> "FetchError", msg |-> "Failed to fetch spreadsheet: status text"]
    ELSE IF response = "rejected"
    THEN [error |-> "FetchError", msg |-> "Failed to fetch spreadsheet: error message"]
    ELSE [error |-> "none", msg |-> ""]

\* a variant that returns when the text does not parse
fetchDataFromTextReturningOnFailure(last, time, parsed, body) ==
    IF body # "text" \/ CleanData(parsed) = <<>>
    THEN [data |-> NoData, lastFetchTime |-> last, error |-> "none", msg |-> ""]
    ELSE [data |-> Held(CleanData(parsed)), lastFetchTime |-> time,
          error |-> "none", msg |-> ""]

\* the rest of fetchData once await response.text() has settled: the fields it
\* leaves and the error it throws ("none" when it returns)
fetchDataFromText(last, time, parsed, body) ==
    IF body = "rejected"
    THEN [data |-> NoData, lastFetchTime |-> last,
          error |-> "FetchError", msg |-> "Failed to fetch spreadsheet: error message"]
    ELSE IF body = "parseErrors"
    THEN [data |-> NoData, lastFetchTime |-> last,
          error |-> "ValidationError", msg |-> "CSV parsing errors"]
    ELSE IF CleanData(parsed) = <<>>
    THEN [data |-> NoData, lastFetchTime |-> last, error |-> "none", msg |-> ""]
    ELSE [data |-> Held(CleanData(parsed)), lastFetchTime |-> time,
          error |-> "none", msg |-> ""]

(***************************************************************************)
(* The stages on the objects they are handed.  A store holds the arrays of  *)
(* rows (an array is the sequence of the references of its rows), the rows  *)
(* and the lists of the options object (its select list, its orderBy        *)
(* clauses); a reference is the index of the object in the store.  A stage  *)
(* is given the reference of its input array and gives the store it leaves  *)
(* and the reference of the array it returns.  filter, slice, map, [...x]   *)
(* and [x] make a new object; sort rearranges the array it is called on;    *)
(* newRow[key] = row[key] writes to the row newRow.                         *)
(***************************************************************************)
\* the objects findMany finds: the rows of this.data, the array of them
\* (reference 1), the select list (list 1) and the orderBy clauses (list 2)
StoreOf(rows, options) ==
    [arrays |-> << [i \in 1..Len(rows) |-> i] >>,
     rows |-> rows,
     lists |-> <<options.select.keys, options.orderBy.keys>>]

\* the rows of the array of that reference, in its order
RowsOf(store, ref) ==
    [i \in 1..Len(store.arrays[ref]) |-> store.rows[store.arrays[ref][i]]]

NewArray(store, items) ==
    [store |-> [store EXCEPT !.arrays = Append(@, items)],
     ref |-> Len(store.arrays) + 1]
NewRow(store, row) ==
    [store |-> [store EXCEPT !.rows = Append(@, row)], ref |-> Len(store.rows) + 1]
NewList(store, items) ==
    [store |-> [store EXCEPT !.lists = Append(@, items)], ref |-> Len(store.lists) + 1]

\* what a stage comes to: the array it returns, or the error it throws
Returned(store, ref) == [store |-> store, ref |-> ref, kind |-> "ok", thrown |-> Ok(<<>>)]
Thrown(store, error) == [store |-> store, ref |-> 0, kind |-> error.kind, thrown |-> error]

\* applyWhere: data itself without a where clause, else data.filter(...)
applyWhereOn(store, array, where) ==
    IF ~where.present THEN [store |-> store, ref |-> array]
    ELSE LET keep(r) == \A key \in DOMAIN where.clause :
                            evaluateCondition(store.rows[r], key, where.clause[key])
         IN  NewArray(store, SelectSeq(store.arrays[array], keep))

\* the orders sort can leave the array of that reference in
SortRefs(store, ref, orderByArray) ==
    {sorted \in Rearrangements(store.arrays[ref]) :
        [i \in 1..Len(sorted) |-> store.rows[sorted[i]]]
            \in SortOutcomes(RowsOf(store, ref), orderByArray)}

\* a variant that sorts data itself before it filters it
applyOrderByOnSortingInput(store, array, orderBy) ==
    IF orderBy.kind = "absent" THEN {[store |-> store, ref |-> array]}
    ELSE LET orderByArray == IF orderBy.kind = "array" THEN [store |-> store, ref |-> 2]
                             ELSE NewList(store, store.lists[2])
             noNull(r) == HasNoNull(store.rows[r])
         IN  {NewArray([orderByArray.store EXCEPT !.arrays[array] = sorted],
                       SelectSeq(sorted, noNull)) :
                 sorted \in SortRefs(orderByArray.store, array,
                                     orderByArray.store.lists[orderByArray.ref])}

\* applyOrderBy: data itself without an orderBy, else orderByArray (orderBy, or
\* the new [orderBy]), filteredData = data.filter(...), and the copy
\* [...filteredData], sorted
applyOrderByOn(store, array, orderBy) ==
    IF orderBy.kind = "absent" THEN {[store |-> store, ref |-> array]}
    ELSE LET orderByArray == IF orderBy.kind = "array" THEN [store |-> store, ref |-> 2]
                             ELSE NewList(store, store.lists[2])
             noNull(r) == HasNoNull(store.rows[r])
             filteredData == NewArray(orderByArray.store,
                                      SelectSeq(store.arrays[array], noNull))
             copy == NewArray(filteredData.store,
                              filteredData.store.arrays[filteredData.ref])
         IN  {[store |-> [copy.store EXCEPT !.arrays[copy.ref] = sorted],
               ref |-> copy.ref] :
                 sorted \in SortRefs(copy.store, copy.ref,
                                     copy.store.lists[orderByArray.ref])}

\* result.map((row) => ...): for each row of the array a new row, {} filled by
\* newRow[key] = row[key] for the keys of the select list, and a new array of
\* the new rows
RECURSIVE MapRows(_, _, _, _)
MapRows(store, refs, keys, mapped) ==
    IF refs = <<>> THEN NewArray(store, mapped)
    ELSE LET newRow == NewRow(store, ProjectRow(store.rows[Head(refs)], keys))
         IN  MapRows(newRow.store, Tail(refs), keys, Append(mapped, newRow.ref))

\* applySelectLimitOffset: result = data, result.slice(offset),
\* result.slice(0, limit), invalidKeys = options.select.filter(...), result.map
applySelectLimitOffsetOn(store, array, options) ==
    IF options.offset.present /\ options.offset.n < 0
    THEN Thrown(store, Throw("ValidationError", "Offset must be a non-negative number",
                             <<>>))
    ELSE
    LET afterOffset == IF options.offset.present
                       THEN NewArray(store, SliceFrom(store.arrays[array], options.offset.n))
                       ELSE [store |-> store, ref |-> array]
    IN  IF options.limit.present /\ options.limit.n < 0
        THEN Thrown(afterOffset.store,
                    Throw("ValidationError", "Limit must be a non-negative number", <<>>))
        ELSE
        LET result == IF options.limit.present
                      THEN NewArray(afterOffset.store,
                                    SliceTo(afterOffset.store.arrays[afterOffset.ref],
                                            options.limit.n))
                      ELSE afterOffset
        IN  IF options.select.kind = "absent" THEN Returned(result.store, result.ref)
            ELSE IF options.select.kind = "other"
            THEN Thrown(result.store,
                        Throw("ValidationError", "Select must be an array of keys", <<>>))
            \* Object.keys(data[0]) throws when data is empty and a key is looked up
            ELSE IF store.lists[1] # <<>> /\ store.arrays[array] = <<>>
            THEN Thrown(result.store,
                        Throw("TypeError", "Cannot convert undefined or null to object",
                              <<>>))
            ELSE LET invalidKeys == NewList(result.store,
                                            InvalidKeys(RowsOf(store, array), store.lists[1]))
                     found == invalidKeys.store.lists[invalidKeys.ref]
                 IN  IF found # <<>>
                     THEN Thrown(invalidKeys.store,
                                 Throw("ValidationError", "Invalid select keys", found))
                     ELSE LET mapped == MapRows(invalidKeys.store,
                                                invalidKeys.store.arrays[result.ref],
                                                store.lists[1], <<>>)
                          IN  Returned(mapped.store, mapped.ref)

\* what the rest of findMany comes to once fetchData has returned: the result
\* it gives, and the rows this.data holds after it (this.data is the array of
\* reference 1; findMany assigns to its local variable result only)
findManyOutcome(selected) ==
    [data |-> Held(RowsOf(selected.store, 1)),
     result |-> IF selected.kind = "ok" THEN Ok(RowsOf(selected.store, selected.ref))
                ELSE selected.thrown]

\* a variant that cuts the rows to the offset and the limit before it orders them
findManyOutcomesLimitBeforeOrder(d, options) ==
    IF ~d.held THEN {[data |-> d, result |-> Ok(<<>>)]}
    ELSE LET store == StoreOf(d.rows, options)
             filtered == applyWhereOn(store, 1, options.where)
             cut == applySelectLimitOffsetOn(filtered.store, filtered.ref,
                        [select |-> NoSelect, limit |-> options.limit,
                         offset |-> options.offset])
         IN  IF cut.kind # "ok" THEN {findManyOutcome(cut)}
             ELSE {findManyOutcome(
                       applySelectLimitOffsetOn(ordered.store, ordered.ref,
                           [select |-> options.select, limit |-> Absent,
                            offset |-> Absent])) :
                   ordered \in applyOrderByOn(cut.store, cut.ref, options.orderBy)}

\* if (!this.data) return []; else the three stages on this.data
findManyOutcomes(d, options) ==
    IF ~d.held THEN {[data |-> d, result |-> Ok(<<>>)]}
    ELSE LET store == StoreOf(d.rows, options)
             filtered == applyWhereOn(store, 1, options.where)
         IN  {findManyOutcome(
                  applySelectLimitOffsetOn(ordered.store, ordered.ref, options)) :
                 ordered \in applyOrderByOn(filtered.store, filtered.ref, options.orderBy)}

\* the results findMany can give
findMany(d, options) == {outcome.result : outcome \in findManyOutcomes(d, options)}

\* what findUnique, findFirst, findLast and count return: a row, null, a number
Row(row) == [kind |-> "row", rows |-> <<row>>, msg |-> "", keys |-> <<>>]
NullResult == [kind |-> "null", rows |-> <<>>, msg |-> "", keys |-> <<>>]
Count(n) == [kind |-> "count", rows |-> <<>>, msg |-> "", keys |-> <<>>, n |-> n]
\* what reset resolves to
Done == [kind |-> "undefined", rows |-> <<>>, msg |-> "", keys |-> <<>>]

\* the rest of findUnique, findFirst, findLast and count once findMany has
\* given results (an error of findMany is theirs)
findUniqueTakingFirst(results) ==
    IF results.kind # "ok" THEN results
    ELSE IF Len(results.rows) > 0 THEN Row(results.rows[1]) ELSE NullResult

findUnique(results) ==
    IF results.kind # "ok" THEN results
    ELSE IF Len(results.rows) > 1
    THEN Throw("ValidationError", "findUnique found multiple results", <<>>)
    ELSE IF Len(results.rows) > 0 THEN Row(results.rows[1]) ELSE NullResult

findFirst(results) ==
    IF results.kind # "ok" THEN results
    ELSE IF Len(results.rows) > 0 THEN Row(results.rows[1]) ELSE NullResult

findLastTakingFirst(results) == findFirst(results)

findLast(results) ==
    IF results.kind # "ok" THEN results
    ELSE IF Len(results.rows) > 0 THEN Row(results.rows[Len(results.rows)])
    ELSE NullResult

countAtMostOne(results) ==
    IF results.kind # "ok" THEN results
    ELSE Count(IF Len(results.rows) > 0 THEN 1 ELSE 0)

count(results) ==
    IF results.kind # "ok" THEN results ELSE Count(Len(results.rows))

FindOps == {"findMany", "findUnique", "findFirst", "findLast", "count"}

\* what the operation of that name that calls findMany makes of the results
\* (or the error) of its findMany
ResultOf(name, results) ==
    CASE name = "findUnique" -> findUnique(results)
      [] name = "findFirst" -> findFirst(results)
      [] name = "findLast" -> findLast(results)
      [] name = "count" -> count(results)

\* a parsed row of the sheet: its id and name columns, a column of empty header
\* and two whose headers are white space (headers a transformHeader that does
\* not trim leaves): space, tab, space; and vertical tab, carriage return
ParsedRow(id, name) ==
    [key \in {"id", "name", "", " \t ", "\r"} |->
        IF key = "id" THEN id ELSE IF key = "name" THEN name ELSE Null]
SheetRowSet ==
    {ParsedRow(Num(1), Str(<<"b">>)), ParsedRow(Num(2), Str(<<"a">>)),
     ParsedRow(Num(3), Null)}
\* the sheets of the model: up to MaxSheetRows rows, no row twice
Sheets ==
    {s \in SeqsUpTo(SheetRowSet, MaxSheetRows) :
        \A i, j \in 1..Len(s) : s[i] = s[j] => i = j}

FindWheres ==
    {NoWhere, Where([id |-> Ops([gt |-> Num(1)])]),
     Where([name |-> Ops([regex |-> Str(<<"a">>)])])}
FindOrderBys == {NoOrderBy, OrderBySingle([key |-> "name", order |-> "asc"])}
FindSelects == {NoSelect, Select(<<"name">>)}
FindPages ==
    {[limit |-> Absent, offset |-> Absent], [limit |-> Given(1), offset |-> Absent],
     [limit |-> Given(1), offset |-> Given(1)]}
FindOptions ==
    {[where |-> w, orderBy |-> o, select |-> s, limit |-> p.limit, offset |-> p.offset] :
        w \in FindWheres, o \in FindOrderBys, s \in FindSelects, p \in FindPages}
    \cup {[where |-> w, orderBy |-> NoOrderBy, select |-> s, limit |-> l,
           offset |-> o] :
             w \in {NoWhere, Where([id |-> Ops([gt |-> Num(3)])])},
             s \in {NoSelect, Select(<<"zz", "name">>), SelectNotArray},
             l \in {Absent, Given(-1)}, o \in {Absent, Given(-1)}}

(***************************************************************************)
(* The steps of the operations, one for each stretch between two awaits.     *)
(* calls[p] is [pc, name, own, res]: where the operation of caller p stands *)
(* ("idle" when p has none in flight), which find operation it is, what its *)
(* own request came to ("none" when it sent no request), and what its       *)
(* findMany has given it.  pc is "fetching" at await fetch(url), "reading"  *)
(* at await response.text(), "awaited" and "thrown" at await                *)
(* this.fetchData() once fetchData has returned or thrown, "returning" at   *)
(* await this.findMany(options) once findMany has returned or thrown.  op,  *)
(* ret and network are those of the operation that completed last.         *)
(***************************************************************************)
Call(pc, name, own, res) == [pc |-> pc, name |-> name, own |-> own, res |-> res]
Idle == Call("idle", "none", "none", Ok(<<>>))

\* the promise of p's operation settles with that result
Complete(p, result) ==
    /\ op' = calls[p].name
    /\ ret' = result
    /\ network' = (calls[p].own # "none")
    /\ calls' = [calls EXCEPT ![p] = Idle]

\* findMany has returned or thrown: its promise settles, and an operation
\* that called it waits on await this.findMany(options)
FindManySettles(p, result) ==
    IF calls[p].name = "findMany"
    THEN Complete(p, result)
    ELSE /\ calls' = [calls EXCEPT ![p] = Call("returning", calls[p].name, calls[p].own,
                                               result)]
         /\ UNCHANGED <<op, ret, network>>

\* a find operation is called by p: findUnique, findFirst, findLast and count
\* call findMany, findMany calls fetchData, which runs to its return or to
\* await fetch(url); findMany then waits on await this.fetchData()
CallFind(p, name) ==
    /\ calls[p].pc = "idle"
    /\ LET f == fetchDataToRequest(data, lastFetchTime, cacheEnabled, cacheDuration, now)
       IN  /\ data' = f.data
           /\ lastFetchTime' = f.lastFetchTime
           /\ calls' = [calls EXCEPT ![p] =
                           Call(IF f.requested THEN "fetching" ELSE "awaited", name, "none",
                                Ok(<<>>))]
    /\ sinceReset' = (IF sinceReset = "none" THEN "one" ELSE "more")
    /\ UNCHANGED <<cacheEnabled, cacheDuration, now, sheet, network, op, args, ret>>

\* await fetch(url) of p's operation settles: fetchData goes on to await
\* response.text(), or its catch block sets this.data = null and throws
SettleFetch(p, response) ==
    /\ calls[p].pc = "fetching"
    /\ LET f == fetchDataFromResponse(response)
       IN  IF f.error # "none"
           THEN /\ data' = NoData
                /\ calls' = [calls EXCEPT ![p] =
                                Call("thrown", calls[p].name, "failed",
                                     Throw(f.error, f.msg, <<>>))]
           ELSE /\ data' = data
                /\ calls' = [calls EXCEPT ![p] =
                                Call("reading", calls[p].name, "none", Ok(<<>>))]
    /\ UNCHANGED <<lastFetchTime, cacheEnabled, cacheDuration, now, sheet, sinceReset, network, op,
                   args, ret>>

\* await response.text() of p's operation settles and the rest of fetchData runs
SettleText(p, body) ==
    /\ calls[p].pc = "reading"
    /\ LET f == fetchDataFromText(lastFetchTime, now, sheet, body)
       IN  /\ data' = f.data
           /\ lastFetchTime' = f.lastFetchTime
           /\ calls' = [calls EXCEPT ![p] =
                           IF f.error # "none"
                           THEN Call("thrown", calls[p].name, "failed",
                                     Throw(f.error, f.msg, <<>>))
                           ELSE Call("awaited", calls[p].name,
                                     IF f.data.held THEN "rows" ELSE "empty", Ok(<<>>))]
    /\ UNCHANGED <<cacheEnabled, cacheDuration, now, sheet, sinceReset, network, op, args, ret>>

\* findMany resumes after await this.fetchData(), which has returned: if
\* (!this.data) return [], else the stages; an error of a stage goes through
\* findMany's catch block in the same stretch
ResumeFind(p) ==
    /\ calls[p].pc = "awaited"
    /\ \E outcome \in findManyOutcomes(data, args.options) :
          /\ data' = outcome.data
          /\ FindManySettles(p, outcome.result)
    /\ UNCHANGED <<lastFetchTime, cacheEnabled, cacheDuration, now, sheet, sinceReset, args>>

\* findMany resumes after await this.fetchData(), which has thrown: its catch
\* block logs the error and throws it again
CatchFind(p) ==
    /\ calls[p].pc = "thrown"
    /\ FindManySettles(p, calls[p].res)
    /\ UNCHANGED <<data, lastFetchTime, cacheEnabled, cacheDuration, now, sheet, sinceReset, args>>

\* findUnique, findFirst, findLast or count resumes after await
\* this.findMany(options) and completes
ReturnFind(p) ==
    /\ calls[p].pc = "returning"
    /\ Complete(p, ResultOf(calls[p].name, calls[p].res))
    /\ UNCHANGED <<data, lastFetchTime, cacheEnabled, cacheDuration, now, sheet, sinceReset, args>>

\* reset() has no await: it runs whole, also while find operations are suspended
Reset ==
    /\ data' = NoData
    /\ lastFetchTime' = 0
    /\ network' = FALSE
    /\ op' = "reset"
    /\ ret' = Done
    /\ sinceReset' = "none"
    /\ UNCHANGED <<cacheEnabled, cacheDuration, now, sheet, args, calls>>

Tick ==
    /\ now < MaxTime
    /\ now' = now + 1
    /\ UNCHANGED <<data, lastFetchTime, cacheEnabled, cacheDuration, sheet, sinceReset, network,
                   op, args, ret, calls>>

(***************************************************************************)
(* The rest of a find operation on its own: an operation stands at await     *)
(* this.fetchData(), which has returned; the rows the instance holds then   *)
(* (none, or the rows of the sheet), the operation and its options are      *)
(* drawn at the start, and the operation runs to its end.                   *)
(***************************************************************************)
InitFind ==
    /\ sheet \in Sheets
    /\ data \in {NoData} \cup (IF sheet = <<>> THEN {} ELSE {Held(CleanData(sheet))})
    /\ lastFetchTime = (IF data.held THEN 1 ELSE 0)
    /\ cacheEnabled = TRUE
    /\ cacheDuration = 1
    /\ now = 1
    /\ network = FALSE
    /\ calls \in {<<Call("awaited", name, "none", Ok(<<>>))>> : name \in FindOps}
    /\ op = "init"
    /\ args \in [options : FindOptions]
    /\ ret = Ok(<<>>)
    /\ sinceReset = "one"

NextFind ==
    \/ \E p \in DOMAIN calls : ResumeFind(p)
    \/ \E p \in DOMAIN calls : ReturnFind(p)

SpecFind == InitFind /\ [][NextFind]_vars

(***************************************************************************)
(* The instance used by one caller, who awaits each find operation before   *)
(* the next; reset and the clock run at any time, also while the operation  *)
(* is suspended.                                                            *)
(***************************************************************************)
ClassOptions ==
    {[where |-> NoWhere, orderBy |-> NoOrderBy, select |-> NoSelect,
      limit |-> Absent, offset |-> Absent],
     [where |-> NoWhere, orderBy |-> OrderBySingle([key |-> "name", order |-> "asc"]),
      select |-> Select(<<"name">>), limit |-> Given(1), offset |-> Absent],
     [where |-> Where([id |-> Ops([gt |-> Num(1)])]), orderBy |-> NoOrderBy,
      select |-> NoSelect, limit |-> Absent, offset |-> Given(1)],
     [where |-> NoWhere, orderBy |-> NoOrderBy, select |-> NoSelect,
      limit |-> Given(-1), offset |-> Absent]}

Init ==
    /\ data = NoData
    /\ lastFetchTime = 0
    /\ cacheEnabled \in BOOLEAN
    /\ cacheDuration \in {1, MaxDuration}
    /\ now = 1
    /\ sheet \in Sheets
    /\ network = FALSE
    /\ calls = <<Idle>>
    /\ op = "init"
    /\ args \in [options : ClassOptions]
    /\ ret = Ok(<<>>)
    /\ sinceReset = "none"

Next ==
    \/ \E p \in DOMAIN calls : \E name \in FindOps : CallFind(p, name)
    \/ \E p \in DOMAIN calls : \E response \in Responses : SettleFetch(p, response)
    \/ \E p \in DOMAIN calls : \E body \in Bodies : SettleText(p, body)
    \/ \E p \in DOMAIN calls : ResumeFind(p)
    \/ \E p \in DOMAIN calls : CatchFind(p)
    \/ \E p \in DOMAIN calls : ReturnFind(p)
    \/ Reset
    \/ Tick

Spec == Init /\ [][Next]_vars

\* the where clause holds a condition object with a key outside validKeys
HasUnknownOperatorKey(where) ==
    \E key \in DOMAIN where.clause :
        where.clause[key].obj /\ ~(DOMAIN where.clause[key].ops \subseteq validKeys)

\* a valid options bundle over the rows held: known operator keys, limit and
\* offset not negative, select absent or a list of names of fields of the rows
ValidOptions(options, rows) ==
    /\ ~HasUnknownOperatorKey(options.where)
    /\ options.limit.present => options.limit.n >= 0
    /\ options.offset.present => options.offset.n >= 0
    /\ \/ options.select.kind = "absent"
       \/ /\ options.select.kind = "array"
          /\ \A i \in 1..Len(options.select.keys) :
                \A j \in 1..Len(rows) : options.select.keys[i] \in DOMAIN rows[j]

NoOptions(options) ==
    /\ ~options.where.present
    /\ options.orderBy.kind = "absent"
    /\ options.select.kind = "absent"
    /\ ~options.limit.present
    /\ ~options.offset.present

\* the rows held that the where clause keeps and, under an orderBy, that have
\* no null field
CountedIndices(rows, options) ==
    {i \in MatchingIndices(rows, options.where) :
        options.orderBy.kind = "absent" \/ ~RowHasNull(rows[i])}

\* what a select list makes of a row: the row with the fields of the list; the
\* row itself without a select list
Selected(row, select) ==
    IF select.kind = "absent" THEN row
    ELSE [key \in {select.keys[i] : i \in 1..Len(select.keys)} |-> row[key]]

\* the rows the sequence gives, taken from the rows held at the indices f: the
\* rows of kept are in the order the options ask for (the order held without an
\* orderBy, the order of the sort keys with one), then the first offset of
\* them are skipped, then at most limit of them are taken, then select applies
TakenInOrder(returned, rows, kept, f, options) ==
    LET offset == IF options.offset.present THEN options.offset.n ELSE 0
        taken == {f[j] : j \in 1..Len(returned)}
        before(i, k) == compareRows(rows[i], rows[k], options.orderBy.keys) <= 0
    IN  /\ \A j \in 1..Len(returned) : returned[j] = Selected(rows[f[j]], options.select)
        /\ \A j, k \in 1..Len(returned) : j # k => f[j] # f[k]
        /\ options.orderBy.kind = "absent"
           => \A j \in 1..Len(returned) :
                 Cardinality({i \in kept : i < f[j]}) = offset + j - 1
        /\ options.orderBy.kind # "absent"
           => /\ \A j, k \in 1..Len(returned) : j < k => before(f[j], f[k])
              /\ \E skipped \in SUBSET (kept \ taken) :
                    /\ Cardinality(skipped) = Min(offset, Cardinality(kept))
                    /\ \A i \in skipped : \A k \in taken : before(i, k)
                    /\ \A i \in kept \ (taken \cup skipped) : \A k \in taken :
                          before(k, i)

\* C1: over a non-empty fetched row-set and a valid options bundle, findMany
\* returns what applySelectLimitOffset gives on a result of applyOrderBy on the
\* result of applyWhere on the rows held; with no option at all that is the rows
\* held themselves.  Spelled out on the rows held: the rows returned are the
\* rows the where clause keeps (under an orderBy those of them without a null
\* field), in the order held or in the order of the sort keys, without the
\* first offset of them, cut to limit, each with the fields of the select list
\* (when no row is kept and fields are selected, the TypeError that
\* applySelectLimitOffset throws on an empty sequence).
C1_FindManyIsThePipeline ==
    (/\ op = "findMany"
     /\ data.held
     /\ ValidOptions(args.options, data.rows))
    => /\ \E ordered \in applyOrderBy(applyWhere(data.rows, args.options.where),
                                      args.options.orderBy) :
             ret = applySelectLimitOffset(ordered, args.options)
       /\ NoOptions(args.options) => ret = Ok(data.rows)
       /\ LET kept == CountedIndices(data.rows, args.options)
              afterOffset == IF args.options.offset.present
                             THEN Max(0, Cardinality(kept) - args.options.offset.n)
                             ELSE Cardinality(kept)
          IN  IF kept = {} /\ args.options.select.keys # <<>>
              THEN ret.kind = "TypeError"
              ELSE /\ ret.kind = "ok"
                   /\ Len(ret.rows) = IF args.options.limit.present
                                      THEN Min(args.options.limit.n, afterOffset)
                                      ELSE afterOffset
                   /\ \E f \in [1..Len(ret.rows) -> kept] :
                         TakenInOrder(ret.rows, data.rows, kept, f, args.options)

\* rows [{1, b}, {2, a}] ordered by name, limited to one row, projected on name
C1_Witness ==
    /\ op = "findMany"
    /\ data = Held(<<[id |-> Num(1), name |-> Str(<<"b">>)],
                     [id |-> Num(2), name |-> Str(<<"a">>)]>>)
    /\ args.options = [where |-> NoWhere,
                       orderBy |-> OrderBySingle([key |-> "name", order |-> "asc"]),
                       select |-> Select(<<"name">>),
                       limit |-> Given(1), offset |-> Absent]
    /\ ret = Ok(<<[name |-> Str(<<"a">>)]>>)

\* C5 (the claim as stated): a where clause holding a condition object with an
\* unknown operator key makes findMany fail with a validation error (here for a
\* query with no other option, over rows that were fetched).
C5_UnknownOperatorKeyRejected ==
    (/\ op = "findMany"
     /\ data.held
     /\ HasUnknownOperatorKey(args.options.where)
     /\ args.options.orderBy.kind = "absent"
     /\ args.options.select.kind = "absent"
     /\ ~args.options.limit.present
     /\ ~args.options.offset.present)
    => ret.kind = "ValidationError"

\* the operation that completed last failed in fetchData (the request or the parse)
FetchFailed == ret.kind = "FetchError" \/ ret.msg = "CSV parsing errors"

\* the columns of the sheet
SheetFields == {"id", "name"}

\* an invalid options bundle: a negative limit or offset, a select that is no
\* sequence, or a select list with a name that is no column of the sheet
InvalidOptions(options) ==
    \/ options.limit.present /\ options.limit.n < 0
    \/ options.offset.present /\ options.offset.n < 0
    \/ options.select.kind = "other"
    \/ /\ options.select.kind = "array"
       /\ \E i \in 1..Len(options.select.keys) : options.select.keys[i] \notin SheetFields

\* C12 (the claim as stated): whatever rows the instance holds (none included)
\* and whatever rows the where clause matches (none included), a find
\* operation with an invalid options bundle fails with a validation error and
\* returns no result.
C12_InvalidOptionsAlwaysRejected ==
    (/\ op \in FindOps
     /\ InvalidOptions(args.options))
    => ret.kind = "ValidationError"

\* C15: findUnique throws the validation error "findUnique found multiple
\* results" exactly when findMany gives more than one row for the same
\* options; it returns the row when findMany gives one row, null when findMany
\* gives none, and findMany's error when findMany throws.
C15_FindUniqueMultiplicity ==
    op = "findUnique"
    => \E r \in findMany(data, args.options) :
          IF r.kind # "ok" THEN ret = r
          ELSE /\ ret = Throw("ValidationError", "findUnique found multiple results", <<>>)
                  <=> Len(r.rows) > 1
               /\ Len(r.rows) = 1 => ret = Row(r.rows[1])
               /\ Len(r.rows) = 0 => ret = NullResult

\* two rows are held, no option narrows them: the multiplicity error
C15_Witness ==
    /\ op = "findUnique"
    /\ data.held
    /\ Len(data.rows) = 2
    /\ NoOptions(args.options)
    /\ ret = Throw("ValidationError", "findUnique found multiple results", <<>>)

\* C16: findFirst returns the first and findLast the last row of the sequence
\* findMany gives for the same options, each returns null exactly when that
\* sequence is empty, and findMany's error when findMany throws.
C16_FindFirstAndLast ==
    op \in {"findFirst", "findLast"}
    => \E r \in findMany(data, args.options) :
          IF r.kind # "ok" THEN ret = r
          ELSE /\ ret = NullResult <=> r.rows = <<>>
               /\ r.rows # <<>> =>
                     ret = Row(r.rows[IF op = "findFirst" THEN 1 ELSE Len(r.rows)])

\* two rows ordered by name: findLast returns the row of the greater name
C16_Witness ==
    /\ op = "findLast"
    /\ data = Held(<<[id |-> Num(2), name |-> Str(<<"a">>)],
                     [id |-> Num(1), name |-> Str(<<"b">>)]>>)
    /\ args.options = [where |-> NoWhere,
                       orderBy |-> OrderBySingle([key |-> "name", order |-> "asc"]),
                       select |-> NoSelect, limit |-> Absent, offset |-> Absent]
    /\ ret = Row([id |-> Num(1), name |-> Str(<<"b">>)])

\* C17: count returns the length of the sequence findMany gives for the same
\* options, and findMany's error when findMany throws.  Over rows that were
\* fetched the number it returns is the number of rows the where clause keeps,
\* less the rows with a null field when an orderBy is given, less the offset,
\* and at most the limit.
C17_CountIsLengthOfFindMany ==
    op = "count"
    => /\ \E r \in findMany(data, args.options) :
             IF r.kind # "ok" THEN ret = r ELSE ret = Count(Len(r.rows))
       /\ (data.held /\ ret.kind = "count")
          => LET m == Cardinality(CountedIndices(data.rows, args.options))
                 afterOffset == IF args.options.offset.present
                                THEN Max(0, m - args.options.offset.n) ELSE m
             IN  ret.n = IF args.options.limit.present
                         THEN Min(args.options.limit.n, afterOffset)
                         ELSE afterOffset

\* of two rows held one has a null name: under an orderBy one row is counted
C17_Witness ==
    /\ op = "count"
    /\ data.held
    /\ Len(data.rows) = 2
    /\ \E i \in 1..2 : RowHasNull(data.rows[i])
    /\ ~args.options.where.present
    /\ args.options.orderBy.kind = "single"
    /\ ~args.options.limit.present
    /\ ~args.options.offset.present
    /\ ret = Count(1)

\* C18: a findMany that completes next after a findMany of the same options,
\* with no reset since that one was called (time may pass, and the second may
\* be answered from the rows held or fetch the sheet again), returns the
\* sequence that one returned; and no step of a find operation changes the
\* rows held or the cache settings, on which the results of later calls depend.
C18_FindManyIsRepeatable ==
    [][/\ \A p \in DOMAIN calls :
             (/\ calls[p].pc = "awaited" /\ calls[p].name = "findMany"
              /\ sinceReset = "more"
              /\ op = "findMany" /\ ret.kind = "ok"
              /\ ResumeFind(p))
             => ret' = ret
       /\ calls' # calls
          => /\ data.held => data' = data
             /\ cacheEnabled' = cacheEnabled
             /\ cacheDuration' = cacheDuration
             /\ args' = args]_vars

\* a findMany, the second or a later one since the last reset, answered from
\* the rows an earlier operation fetched
C18_Witness ==
    /\ op = "findMany"
    /\ sinceReset = "more"
    /\ ~network
    /\ data.held
    /\ ret.kind = "ok"
    /\ ret.rows # <<>>

\* every object of the store before is in the store after what it was
Kept(before, after) ==
    /\ \A a \in 1..Len(before.arrays) : after.arrays[a] = before.arrays[a]
    /\ \A r \in 1..Len(before.rows) : after.rows[r] = before.rows[r]
    /\ \A l \in 1..Len(before.lists) : after.lists[l] = before.lists[l]

\* an options bundle with an orderBy array, for the stages
ArrayOrderOptions ==
    [where |-> Where([id |-> Ops([gt |-> Num(1)])]),
     orderBy |-> OrderByArray(<<[key |-> "name", order |-> "asc"],
                                [key |-> "id", order |-> "desc"]>>),
     select |-> Select(<<"id">>), limit |-> Given(1), offset |-> Given(1)]

\* each of the three stages, run as findMany runs them on these rows, leaves
\* every object it was handed as it was (its input array, the rows, the lists
\* of the options); an array that was filtered or sorted is a new array, and
\* the rows of a select are new rows in a new array
StagesKeepInputs(rows, options) ==
    LET store == StoreOf(rows, options)
        filtered == applyWhereOn(store, 1, options.where)
    IN  /\ Kept(store, filtered.store)
        /\ options.where.present => filtered.ref > Len(store.arrays)
        /\ \A ordered \in applyOrderByOn(filtered.store, filtered.ref, options.orderBy) :
              /\ Kept(filtered.store, ordered.store)
              /\ options.orderBy.kind # "absent"
                 => ordered.ref > Len(filtered.store.arrays)
              /\ LET selected == applySelectLimitOffsetOn(ordered.store, ordered.ref,
                                                          options)
                 IN  /\ Kept(ordered.store, selected.store)
                     /\ (selected.kind = "ok" /\ options.select.kind = "array")
                        => /\ selected.ref > Len(ordered.store.arrays)
                           /\ \A i \in 1..Len(selected.store.arrays[selected.ref]) :
                                 selected.store.arrays[selected.ref][i]
                                     > Len(ordered.store.rows)

\* C19: after any sequence of operations the rows held by the instance are the
\* rows that were fetched (the sheet's rows without their columns of blank
\* header), in fetched order; and when findMany is about to run its stages on
\* them, applyWhere, applyOrderBy and applySelectLimitOffset leave their input
\* array, its rows and the lists of the options as they were (for the options
\* of the call, and for options with an orderBy array): what they filter,
\* sort or project is a new array, and a projected row is a new row.
C19_HeldRowsAreTheFetchedRows ==
    data.held
    => /\ data.rows = CleanData(sheet)
       /\ (\E p \in DOMAIN calls :
              calls[p].pc = "awaited" /\ calls[p].name = "findMany")
          => /\ StagesKeepInputs(data.rows, args.options)
             /\ StagesKeepInputs(data.rows, ArrayOrderOptions)

\* a findMany that sorted, cut and projected rows, which are held as fetched
C19_Witness ==
    /\ op = "findMany"
    /\ data = Held(<<[id |-> Num(1), name |-> Str(<<"b">>)],
                     [id |-> Num(2), name |-> Str(<<"a">>)]>>)
    /\ args.options.orderBy.kind = "single"
    /\ ret = Ok(<<[name |-> Str(<<"a">>)]>>)

\* C20 (the claim as stated): reset leaves the instance with no rows and a last
\* fetch time of 0, and the find operation that is called next after a reset
\* asks the network for the sheet.
C20_ResetForcesFetch ==
    [][/\ (op' = "reset" /\ calls' = calls /\ now' = now)
          => (~data'.held /\ lastFetchTime' = 0)
       /\ \A p \in DOMAIN calls :
             (sinceReset = "none" /\ calls[p].pc = "idle" /\ calls'[p].pc # "idle")
             => calls'[p].pc = "fetching"]_vars

\* C21 (the claim as stated): a find operation answers without asking the
\* network exactly when rows are held, caching is enabled and less than the
\* cache duration has passed since the last fetch; with rows held and caching
\* disabled or the duration passed, it fetches the sheet again.
C21_ExpiredOrDisabledCacheRefetches ==
    [][\A p \in DOMAIN calls :
          (calls[p].pc = "idle" /\ calls'[p].pc # "idle")
          => (calls'[p].pc = "fetching" <=> ~(/\ data.held
                                              /\ cacheEnabled
                                              /\ now - lastFetchTime < cacheDuration))]_vars

\* C22: a find operation whose request is rejected or answered with a non-OK
\* status, or whose text cannot be read or does not parse, leaves the
\* instance without rows and throws an error (a FetchError, or the validation
\* error of the parse) in place of rows; the find operation that is called
\* next asks the network again.
C22_FailedFetchRejectsAndHoldsNothing ==
    [][/\ \A p \in DOMAIN calls : \A response \in Responses \ {"ok"} :
             (calls[p].pc = "fetching" /\ SettleFetch(p, response))
             => /\ calls'[p].pc = "thrown"
                /\ calls'[p].res.kind = "FetchError"
                /\ data' = NoData
       /\ \A p \in DOMAIN calls : \A body \in Bodies \ {"text"} :
             (calls[p].pc = "reading" /\ SettleText(p, body))
             => /\ calls'[p].pc = "thrown"
                /\ calls'[p].res.kind = (IF body = "parseErrors" THEN "ValidationError"
                                         ELSE "FetchError")
                /\ data' = NoData
       /\ \A p \in DOMAIN calls :
             (calls[p].own = "failed" /\ calls'[p] # calls[p])
             => /\ calls[p].res.rows = <<>>
                /\ \/ /\ calls'[p].pc = "returning"
                      /\ calls'[p].res = calls[p].res
                      /\ calls'[p].own = "failed"
                   \/ /\ calls'[p].pc = "idle"
                      /\ op' = calls[p].name
                      /\ ret' = calls[p].res
                      /\ network'
       /\ \A p \in DOMAIN calls :
             (/\ op \in FindOps /\ FetchFailed
              /\ calls[p].pc = "idle" /\ calls'[p].pc # "idle")
             => calls'[p].pc = "fetching"]_vars

\* a find operation on a sheet with rows threw the FetchError of its request,
\* and the operation called next waits for its own request
C22_Witness ==
    /\ op \in FindOps
    /\ ret.kind = "FetchError"
    /\ network
    /\ data = NoData
    /\ sheet # <<>>
    /\ \E p \in DOMAIN calls : calls[p].pc = "fetching"


(***************************************************************************)
(* The comparator on its own: compareValues over three operands a, b, c    *)
(* and a direction, called on the pairs the algebraic laws speak of.        *)
(***************************************************************************)
CompareOperands ==
    {Num(2), Num(9), Num(10), Str(<<"1", "0">>), Str(<<"5", "x">>), Str(<<"9">>),
     Str(<<"a">>), Bool(TRUE), Bool(FALSE), Null, Undefined}
Directions == {"asc", "desc"}
OtherDirection(order) == IF order = "asc" THEN "desc" ELSE "asc"

InitCompare ==
    /\ data = [held |-> FALSE, rows |-> <<>>]
    /\ lastFetchTime = 0
    /\ cacheEnabled = TRUE
    /\ cacheDuration = 1
    /\ now = 1
    /\ sheet = <<>>
    /\ network = FALSE
    /\ calls = <<>>
    /\ op = "init"
    /\ args \in [a : CompareOperands, b : CompareOperands, c : CompareOperands,
                 order : Directions]
    /\ ret = [ab |-> 0, ba |-> 0, bc |-> 0, ac |-> 0, aa |-> 0, abOther |-> 0]
    /\ sinceReset = "none"

CompareValues ==
    /\ op = "init"
    /\ op' = "compareValues"
    /\ ret' = [ab |-> compareValues(args.a, args.b, args.order),
               ba |-> compareValues(args.b, args.a, args.order),
               bc |-> compareValues(args.b, args.c, args.order),
               ac |-> compareValues(args.a, args.c, args.order),
               aa |-> compareValues(args.a, args.a, args.order),
               abOther |-> compareValues(args.a, args.b, OtherDirection(args.order))]
    /\ UNCHANGED <<ormVars, args>>

NextCompare == CompareValues

SpecCompare == InitCompare /\ [][NextCompare]_vars

IsNullish(v) == v = Null \/ v = Undefined
Sign(x) == IF x < 0 THEN -1 ELSE IF x > 0 THEN 1 ELSE 0

\* C24 (the claim as stated): for scalar operands a and b (numbers, strings,
\* booleans) and either direction, the comparator returns -1, 0 or 1.
C24_ComparatorReturnsSign ==
    (/\ op = "compareValues"
     /\ ~IsNullish(args.a)
     /\ ~IsNullish(args.b))
    => ret.ab \in {-1, 0, 1}

\* C25: when exactly one operand is null or undefined it comes after the other
\* under "asc" and before it under "desc", in either argument position; for
\* two operands that are neither, the result under one direction is the
\* negation of the result under the other.
C25_NullLastAscendingFirstDescending ==
    op = "compareValues"
    => /\ (IsNullish(args.a) /\ ~IsNullish(args.b))
          => /\ ret.ab = (IF args.order = "asc" THEN 1 ELSE -1)
             /\ ret.ba = (IF args.order = "asc" THEN -1 ELSE 1)
       /\ (~IsNullish(args.a) /\ ~IsNullish(args.b))
          => ret.abOther = -ret.ab

\* undefined against 9, descending: undefined first from either position
C25_Witness ==
    /\ op = "compareValues"
    /\ args.a = Undefined
    /\ args.b = Num(9)
    /\ args.order = "desc"
    /\ ret.ab = -1
    /\ ret.ba = 1

\* C27 (the claim as stated): for a fixed direction and operands that are
\* neither null nor undefined, compare(a, b) <= 0 and compare(b, c) <= 0 give
\* compare(a, c) <= 0.
C27_ComparatorTransitive ==
    (/\ op = "compareValues"
     /\ ~IsNullish(args.a) /\ ~IsNullish(args.b) /\ ~IsNullish(args.c)
     /\ ret.ab <= 0
     /\ ret.bc <= 0)
    => ret.ac <= 0

\* C28 (the claim as stated): for a fixed direction and every pair of operands,
\* both null or undefined included, sign(compare(a, b)) = -sign(compare(b, a))
\* and compare(a, a) = 0.
C28_ComparatorAntisymmetricReflexive ==
    op = "compareValues"
    => /\ Sign(ret.ab) = -Sign(ret.ba)
       /\ ret.aa = 0

(***************************************************************************)
(* Projection after projection: applySelectLimitOffset with select [a, b]  *)
(* on rows that have the fields a and b, then with select [a] on what the   *)
(* first call returned.                                                      *)
(***************************************************************************)
ProjectRowSet ==
    {[a |-> Num(1), b |-> Str(<<"x">>)], [a |-> Num(2), b |-> Str(<<"y">>)],
     [a |-> Num(3), b |-> Null, c |-> Num(7)], [a |-> Null, b |-> Str(<<"x">>), c |-> Num(8)]}

SelectOnly(keys) == [select |-> Select(keys), limit |-> Absent, offset |-> Absent]

InitProject ==
    /\ data = [held |-> FALSE, rows |-> <<>>]
    /\ lastFetchTime = 0
    /\ cacheEnabled = TRUE
    /\ cacheDuration = 1
    /\ now = 1
    /\ sheet = <<>>
    /\ network = FALSE
    /\ calls = <<>>
    /\ op = "init"
    /\ args \in [rows : SeqsUpTo(ProjectRowSet, MaxRows) \ {<<>>},
                 first : {SelectOnly(<<"a", "b">>)}, second : {SelectOnly(<<"a">>)}]
    /\ ret = Ok(<<>>)
    /\ sinceReset = "none"

Project ==
    /\ op = "init"
    /\ op' = "projected"
    /\ ret' = applySelectLimitOffset(args.rows, args.first)
    /\ UNCHANGED <<ormVars, args>>

ProjectAgain ==
    /\ op = "projected"
    /\ ret.kind = "ok"
    /\ op' = "projectedAgain"
    /\ ret' = applySelectLimitOffset(ret.rows, args.second)
    /\ UNCHANGED <<ormVars, args>>

NextProject == Project \/ ProjectAgain

SpecProject == InitProject /\ [][NextProject]_vars

\* C26: over a non-empty row sequence whose rows have the fields a and b,
\* projecting onto [a, b] and the result onto [a] raises no error and gives
\* what projecting the sequence onto [a] gives: for every input row, in the
\* input's order, the row of its field a alone.
C26_ProjectionComposes ==
    /\ op = "projected" => ret.kind = "ok"
    /\ op = "projectedAgain"
       => /\ ret = applySelectLimitOffset(args.rows, args.second)
          /\ ret.kind = "ok"
          /\ Len(ret.rows) = Len(args.rows)
          /\ \A i \in 1..Len(ret.rows) : ret.rows[i] = [a |-> args.rows[i].a]

\* three different rows, one of them with a third field, projected twice
C26_Witness ==
    /\ op = "projectedAgain"
    /\ Len(args.rows) = 3
    /\ args.rows[1] # args.rows[2]
    /\ "c" \in DOMAIN args.rows[3]
    /\ ret = Ok(<<[a |-> args.rows[1].a], [a |-> args.rows[2].a], [a |-> args.rows[3].a]>>)

(***************************************************************************)
(* The cache of the class: configureCaching and getCacheStatus next to      *)
(* the find operations, reset and the clock, on an instance queried with   *)
(* no options by one caller.  Both have no await and run whole, also while  *)
(* a find operation is suspended.                                           *)
(***************************************************************************)
\* configureCaching({enabled, duration}): the settings it leaves and what it
\* returns or throws
configureCaching(enabled, duration, ce, cd) ==
    LET ce1 == IF enabled # Undefined THEN enabled.n = 1 ELSE ce
    IN  IF duration # Undefined
        THEN IF TypeOf(duration) # "number" \/ duration.n <= 0
             THEN [cacheEnabled |-> ce1, cacheDuration |-> cd,
                   ret |-> Throw("ValidationError",
                                 "Cache duration must be a positive number", <<>>)]
             ELSE [cacheEnabled |-> ce1, cacheDuration |-> duration.n, ret |-> Done]
        ELSE [cacheEnabled |-> ce1, cacheDuration |-> cd, ret |-> Done]

\* getCacheStatus: lastFetchTime is this.lastFetchTime || null
getCacheStatus(d, last, enabled, duration, time) ==
    [kind |-> "status", rows |-> <<>>, msg |-> "", keys |-> <<>>,
     enabled |-> enabled,
     valid |-> isCacheValid(d, last, enabled, duration, time),
     lastFetchTime |-> IF last = 0 THEN Absent ELSE Given(last)]

EnabledOptions == {Undefined, Bool(TRUE), Bool(FALSE)}
DurationOptions ==
    {Undefined, Num(-1), Num(0), Num(1), Num(MaxDuration), Str(<<"5">>)}

InitCache ==
    /\ data = NoData
    /\ lastFetchTime = 0
    /\ cacheEnabled \in BOOLEAN
    /\ cacheDuration \in {1, MaxDuration}
    /\ now = 1
    /\ sheet \in Sheets
    /\ network = FALSE
    /\ calls = <<Idle>>
    /\ op = "init"
    /\ args = [options |-> [where |-> NoWhere, orderBy |-> NoOrderBy, select |-> NoSelect,
                            limit |-> Absent, offset |-> Absent]]
    /\ ret = Ok(<<>>)
    /\ sinceReset = "none"

ConfigureCaching(enabled, duration) ==
    LET c == configureCaching(enabled, duration, cacheEnabled, cacheDuration)
    IN  /\ cacheEnabled' = c.cacheEnabled
        /\ cacheDuration' = c.cacheDuration
        /\ network' = FALSE
        /\ op' = "configureCaching"
        /\ ret' = c.ret
        /\ UNCHANGED <<data, lastFetchTime, now, sheet, sinceReset, args, calls>>

GetCacheStatus ==
    /\ network' = FALSE
    /\ op' = "getCacheStatus"
    /\ ret' = getCacheStatus(data, lastFetchTime, cacheEnabled, cacheDuration, now)
    /\ UNCHANGED <<data, lastFetchTime, cacheEnabled, cacheDuration, now, sheet, sinceReset, args, calls>>

NextCache ==
    \/ \E p \in DOMAIN calls : \E name \in FindOps : CallFind(p, name)
    \/ \E p \in DOMAIN calls : \E response \in Responses : SettleFetch(p, response)
    \/ \E p \in DOMAIN calls : \E body \in Bodies : SettleText(p, body)
    \/ \E p \in DOMAIN calls : ResumeFind(p)
    \/ \E p \in DOMAIN calls : CatchFind(p)
    \/ \E p \in DOMAIN calls : ReturnFind(p)
    \/ Reset
    \/ Tick
    \/ \E enabled \in EnabledOptions : \E duration \in DurationOptions :
          ConfigureCaching(enabled, duration)
    \/ GetCacheStatus

SpecCache == InitCache /\ [][NextCache]_vars

\* a duration that is given and is no positive number
InvalidDuration(duration) ==
    duration # Undefined /\ (TypeOf(duration) # "number" \/ duration.n <= 0)

\* C29 (the claim as stated): configureCaching with a duration that is no
\* positive number throws the validation error "Cache duration must be a
\* positive number" and leaves the enabled flag and the duration as they were,
\* whatever enabled value the call carries.
C29_RejectedConfigureCachingChangesNothing ==
    [][\A enabled \in EnabledOptions : \A duration \in DurationOptions :
          (InvalidDuration(duration) /\ ConfigureCaching(enabled, duration))
          => /\ ret' = Throw("ValidationError",
                             "Cache duration must be a positive number", <<>>)
             /\ cacheEnabled' = cacheEnabled
             /\ cacheDuration' = cacheDuration]_vars

\* C30 (the claim as stated): the last fetch time changes only when the
\* request of a find operation stores rows (it becomes the time of that
\* fetch) or when reset runs (it becomes 0), and it is 0 exactly when no rows
\* are held; getCacheStatus reports it, null for 0, and reports valid only if
\* caching is enabled, rows are held and less than the cache duration has
\* passed since that time.
C30_LastFetchTimeIsTimeOfLastFetch ==
    [][/\ lastFetchTime' # lastFetchTime
          => \/ op' = "reset" /\ calls' = calls /\ lastFetchTime' = 0
             \/ /\ \E p \in DOMAIN calls :
                      calls[p].pc = "reading" /\ calls'[p].pc = "awaited"
                /\ data'.held
                /\ lastFetchTime' = now
       /\ lastFetchTime' = 0 <=> ~data'.held
       /\ (op' = "getCacheStatus" /\ calls' = calls /\ now' = now)
          => /\ ret'.lastFetchTime =
                   (IF lastFetchTime' = 0 THEN Absent ELSE Given(lastFetchTime'))
             /\ ret'.valid => /\ cacheEnabled'
                              /\ data'.held
                              /\ now' - lastFetchTime' < cacheDuration']_vars

(***************************************************************************)
(* Overlapping find operations: several callers, each with a find operation *)
(* of its own in flight, and reset between their steps.                     *)
(***************************************************************************)
Procs == 1..MaxCalls

ConcOptions ==
    {[where |-> NoWhere, orderBy |-> NoOrderBy, select |-> NoSelect, limit |-> l,
      offset |-> Absent] : l \in {Absent, Given(1)}}

\* a sheet without rows and a sheet with rows
ConcSheets ==
    {<<>>, <<ParsedRow(Num(1), Str(<<"b">>)), ParsedRow(Num(2), Str(<<"a">>))>>}

InitConc ==
    /\ data = NoData
    /\ lastFetchTime = 0
    /\ cacheEnabled \in BOOLEAN
    /\ cacheDuration = 1
    /\ now = 1
    /\ sheet \in ConcSheets
    /\ network = FALSE
    /\ calls = [p \in Procs |-> Idle]
    /\ op = "init"
    /\ args \in [options : ConcOptions]
    /\ ret = Ok(<<>>)
    /\ sinceReset = "none"

NextConc ==
    \/ \E p \in Procs : \E name \in FindOps : CallFind(p, name)
    \/ \E p \in Procs : \E response \in Responses : SettleFetch(p, response)
    \/ \E p \in Procs : \E body \in Bodies : SettleText(p, body)
    \/ \E p \in Procs : ResumeFind(p)
    \/ \E p \in Procs : CatchFind(p)
    \/ \E p \in Procs : ReturnFind(p)
    \/ Reset

SpecConc == InitConc /\ [][NextConc]_vars

\* C23 (the claim as stated): the findMany of an operation whose own request
\* brought rows gives the pipeline's result over all the rows of the sheet,
\* whatever the other operations' requests came to and whether or not reset
\* ran in between; and a request that fails leaves the rows another operation
\* stored.
C23_OverlappingFindsAreIndependent ==
    [][/\ \A p \in Procs :
             (calls[p].pc = "awaited" /\ calls[p].own = "rows" /\ ResumeFind(p))
             => (IF calls[p].name = "findMany" THEN ret' ELSE calls'[p].res)
                   \in findMany(Held(CleanData(sheet)), args.options)
       /\ \A p \in Procs :
             (data.held /\ calls[p].pc \in {"fetching", "reading"}
              /\ calls'[p].pc = "thrown")
             => data'.held]_vars

=============================================================================
